---- MODULE Spec2Model ----
(***************************************************************************)
(* A model of src/main.py: the Flask download service.                     *)
(*   - check_rate_limit: the per-client sliding-window limiter over the    *)
(*     module-level dict download_requests (no lock in the source);        *)
(*   - download_video: the POST /download handler, one worker thread per   *)
(*     request, stepping through its gates;                                *)
(*   - cleanup_old_files / cleanup_worker: the background sweeper over     *)
(*     the storage directory;                                              *)
(*   - get_safe_filename: the title sanitizer.                             *)
(* The clock counts whole hours.  Strings are sequences of one-character   *)
(* strings so that prefix tests, splitting and slicing are computed.       *)
(***************************************************************************)
EXTENDS Integers, Sequences, FiniteSets, TLC

(***************************************************************************)
(* Configuration (all read from the environment in the source).  The model *)
(* runs the deployment MAX_REQUESTS_PER_IP=2, RATE_LIMIT_WINDOW_MINUTES=120*)
(* MAX_FILE_AGE_HOURS=1, MAX_DURATION_SECONDS=3600.                        *)
(***************************************************************************)
MAX_FILE_AGE_HOURS == 1
MAX_DURATION_SECONDS == 3600
MAX_REQUESTS_PER_IP == 2
RATE_LIMIT_WINDOW_MINUTES == 120
\* time.sleep(3600) in cleanup_worker, in hours
SLEEP_HOURS == 1
\* the slice [:100] of get_safe_filename
MAX_NAME_LEN == 100

(***************************************************************************)
(* Bounds of the model.                                                    *)
(***************************************************************************)
\* the clock stops advancing here
MaxTime == 2
\* POST /download requests served in one run
MaxRequests == 3
\* worker threads serving requests at the same time
Workers == {1, 2}
\* client identities (X-Forwarded-For or peer address)
Clients == {"c1", "c2"}

(***************************************************************************)
(* datetime arithmetic on the hour clock                                   *)
(***************************************************************************)
timedelta_minutes(m) == m \div 60
timedelta_hours(h) == h

(***************************************************************************)
(* Strings                                                                 *)
(***************************************************************************)
Str_http == <<"h", "t", "t", "p", ":", "/", "/">>
Str_https == <<"h", "t", "t", "p", "s", ":", "/", "/">>
Str_ext == <<".", "m", "p", "4">>
Str_Unknown == <<"U", "n", "k", "n", "o", "w", "n">>

\* str.startswith
startswith(s, p) == Len(s) >= Len(p) /\ SubSeq(s, 1, Len(p)) = p

\* safe_chars of get_safe_filename
safe_chars ==
    { "a", "b", "c", "d", "e", "f", "g", "h", "i", "j", "k", "l", "m",
      "n", "o", "p", "q", "r", "s", "t", "u", "v", "w", "x", "y", "z",
      "A", "B", "C", "D", "E", "F", "G", "H", "I", "J", "K", "L", "M",
      "N", "O", "P", "Q", "R", "S", "T", "U", "V", "W", "X", "Y", "Z",
      "0", "1", "2", "3", "4", "5", "6", "7", "8", "9",
      "-", "_", ".", " " }

\* ''.join(c if c in safe_chars else '_' for c in title)
ReplaceUnsafe(title) ==
    [i \in 1..Len(title) |-> IF title[i] \in safe_chars THEN title[i] ELSE "_"]

\* ' '.join(s.split()): runs of spaces collapse to one, leading and trailing
\* spaces go (after ReplaceUnsafe the only whitespace left is " ")
KeptBySplitJoin(s, i) ==
    \/ s[i] # " "
    \/ /\ i > 1
       /\ s[i - 1] # " "
       /\ \E j \in (i + 1)..Len(s) : s[j] # " "

\* the kept characters of s[lo..hi], in order
RECURSIVE JoinKept(_, _, _)
JoinKept(s, lo, hi) ==
    IF lo > hi THEN <<>>
    ELSE IF lo = hi THEN IF KeptBySplitJoin(s, lo) THEN <<s[lo]>> ELSE <<>>
    ELSE LET mid == (lo + hi) \div 2
         IN  JoinKept(s, lo, mid) \o JoinKept(s, mid + 1, hi)

CollapseSpaces(s) == JoinKept(s, 1, Len(s))

\* s[:n + 1]: one character too many survives
Truncate_OneMore(s, n) == IF Len(s) <= n + 1 THEN s ELSE SubSeq(s, 1, n + 1)

\* s[:n]
Truncate(s, n) == IF Len(s) <= n THEN s ELSE SubSeq(s, 1, n)

get_safe_filename(title) ==
    Truncate(CollapseSpaces(ReplaceUnsafe(title)), MAX_NAME_LEN)

(***************************************************************************)
(* Request inputs and collaborator (yt-dlp) outcomes                       *)
(***************************************************************************)
Str_ftp_x == <<"f", "t", "p", ":", "/", "/", "x">>
Str_http_v == Str_http \o <<"v">>
Str_https_v == Str_https \o <<"v">>

\* data.get("url"): absent (None), a string, or a JSON value that is no string
UrlValues ==
    { [kind |-> "absent", val |-> <<>>],
      [kind |-> "str", val |-> <<>>],
      [kind |-> "str", val |-> Str_ftp_x],
      [kind |-> "str", val |-> Str_http_v],
      [kind |-> "str", val |-> Str_https_v],
      [kind |-> "int", val |-> <<>>] }

\* request.get_json(): nothing usable (None or {}), or an object
Bodies ==
    { [json |-> FALSE, url |-> [kind |-> "absent", val |-> <<>>]] }
      \cup { [json |-> TRUE, url |-> u] : u \in UrlValues }

\* info['duration'] as the probe reports it
Durations ==
    { [kind |-> "missing", val |-> 0],
      [kind |-> "none", val |-> 0],
      [kind |-> "num", val |-> 0],
      [kind |-> "num", val |-> MAX_DURATION_SECONDS],
      [kind |-> "num", val |-> MAX_DURATION_SECONDS + 400] }

\* info['title'] as the probe reports it
Titles ==
    { [kind |-> "missing", val |-> <<>>],
      [kind |-> "str", val |-> <<"T", ":", " ", "V", "!">>] }

\* the fewer inputs of the specifications with concurrent threads
FewBodies ==
    { [json |-> TRUE, url |-> [kind |-> "str", val |-> <<>>]],
      [json |-> TRUE, url |-> [kind |-> "str", val |-> Str_http_v]] }
GoodBodies == { [json |-> TRUE, url |-> [kind |-> "str", val |-> Str_http_v]] }
FewDurations == { [kind |-> "num", val |-> 0] }
FewTitles == { [kind |-> "missing", val |-> <<>>] }
TwoTitles == FewTitles \cup { [kind |-> "str", val |-> <<".", "h">>] }

\* info.get('duration', 0)
get_duration(d) ==
    IF d.kind = "missing" THEN [kind |-> "num", val |-> 0] ELSE d

\* info.get('title', 'Unknown')
get_title(t) ==
    IF t.kind = "missing" THEN Str_Unknown ELSE t.val

\* truth value of a number or None
Truthy(d) == d.kind = "num" /\ d.val # 0

\* a fault: a video exactly as long as the limit is refused
DurationExceeded_AtLimit(d) == Truthy(d) /\ d.val >= MAX_DURATION_SECONDS

\* duration and duration > MAX_DURATION_SECONDS
DurationExceeded(d) == Truthy(d) /\ d.val > MAX_DURATION_SECONDS

(***************************************************************************)
(* State                                                                   *)
(***************************************************************************)
VARIABLES
    now,                \* datetime.now()
    download_requests,  \* the module-level dict: client -> list of datetimes
    admitted,           \* history: per client and time, the calls that returned True
    last_call,          \* history: the check_rate_limit call that returned last
    pc,                 \* where each worker is in download_video
    loc,                \* each worker's local variables
    events,             \* history: each request's trace of gate events
    response,           \* what each worker returns
    started,            \* requests received so far
    dir_exists,         \* os.path.exists(DOWNLOAD_DIR)
    files,              \* entries of DOWNLOAD_DIR: name -> [kind, ctime, size]
    spc,                \* where the cleanup thread is
    wake_at,            \* end of its time.sleep
    s_cutoff,           \* cutoff_time of the running cycle
    s_paths,            \* glob results not yet visited in the running cycle
    file_path,          \* the glob result the loop is looking at
    s_log,              \* what the running cycle did to which path
    title_in,           \* a title handed to get_safe_filename
    names               \* the results of applying it, and applying it again

rlVars == <<download_requests, admitted, last_call>>
hVars == <<pc, loc, events, response, started>>
fsVars == <<dir_exists, files>>
swVars == <<spc, wake_at, s_cutoff, s_paths, file_path, s_log>>
fnVars == <<title_in, names>>
vars == <<now, rlVars, hVars, fsVars, swVars, fnVars>>

NoBody == [json |-> FALSE, url |-> [kind |-> "absent", val |-> <<>>]]

\* the locals of a worker before it has assigned any
IdleLoc ==
    [client_ip |-> "-", body |-> NoBody,
     current_time |-> 0, kept |-> <<>>,
     duration |-> [kind |-> "num", val |-> 0], title |-> <<>>,
     filename |-> <<>>, exists |-> FALSE]

NoCall == [client |-> "-", time |-> 0, result |-> FALSE]

NoResponse == [status |-> 0, body |-> [error |-> "-"]]

EmptyDir == [n \in {} |-> [kind |-> "file", ctime |-> 0, size |-> 0]]

\* what the persistent volume may hold when the process starts
Str_sub == <<"s", "u", "b">>
Str_old == <<"o", "l", "d">>
UsedDir ==
    [n \in {Str_sub, Str_old} |->
        IF n = Str_sub THEN [kind |-> "dir", ctime |-> 0, size |-> 0]
        ELSE [kind |-> "file", ctime |-> 0, size |-> 1]]

InitialVolumes ==
    { [exists |-> FALSE, entries |-> EmptyDir],
      [exists |-> TRUE, entries |-> UsedDir] }

InitService ==
    /\ now = 0
    /\ download_requests = [c \in {} |-> <<>>]
    /\ admitted = [c \in Clients |-> [t \in 0..0 |-> 0]]
    /\ last_call = NoCall
    /\ pc = [w \in Workers |-> "idle"]
    /\ loc = [w \in Workers |-> IdleLoc]
    /\ events = [w \in Workers |-> <<>>]
    /\ response = [w \in Workers |-> NoResponse]
    /\ started = 0
    /\ \E v \in InitialVolumes :
        /\ dir_exists = v.exists
        /\ files = v.entries
    /\ spc = "sleeping"
    /\ wake_at = 0
    /\ s_cutoff = 0
    /\ s_paths = {}
    /\ file_path = <<>>
    /\ s_log = {}

Init ==
    /\ InitService
    /\ title_in = <<>>
    /\ names = <<>>

(***************************************************************************)
(* check_rate_limit                                                        *)
(***************************************************************************)
\* download_requests.get(client_ip, [])
dict_get(d, c) == IF c \in DOMAIN d THEN d[c] ELSE <<>>

\* d[c] = v
dict_set(d, c, v) == [k \in DOMAIN d \cup {c} |-> IF k = c THEN v ELSE d[k]]

\* a fault: the comparison lets a timestamp exactly a window old stay
InWindow_Inclusive(req_time, cutoff_time) == req_time >= cutoff_time

\* the condition of the list comprehension
InWindow(req_time, cutoff_time) == req_time > cutoff_time

\* [req_time for req_time in l if req_time > cutoff_time]
RECURSIVE FilterWindow(_, _)
FilterWindow(l, cutoff_time) ==
    IF l = <<>> THEN <<>>
    ELSE IF InWindow(Head(l), cutoff_time)
         THEN <<Head(l)>> \o FilterWindow(Tail(l), cutoff_time)
         ELSE FilterWindow(Tail(l), cutoff_time)

rate_cutoff(current_time) ==
    current_time - timedelta_minutes(RATE_LIMIT_WINDOW_MINUTES)

\* a fault: the test lets one request too many through
LimitReached_Off(l) == Len(l) > MAX_REQUESTS_PER_IP

\* len(...) >= MAX_REQUESTS_PER_IP
LimitReached(l) == Len(l) >= MAX_REQUESTS_PER_IP

\* the dict after lines 77-79
Appended(d, c, t) ==
    LET d1 == IF c \in DOMAIN d THEN d ELSE dict_set(d, c, <<>>)
    IN  dict_set(d1, c, Append(d1[c], t))

\* how many calls for c at time t returned True
admitted_at(adm, c, t) == IF t \in DOMAIN adm[c] THEN adm[c][t] ELSE 0

\* the histories after a call for c at time t returned r
Logged(adm, c, t, r) ==
    IF r THEN [adm EXCEPT ![c] = [u \in DOMAIN @ \cup {t} |->
                                     admitted_at(adm, c, u) + (IF u = t THEN 1 ELSE 0)]]
    ELSE adm

LogCall(c, t, r) ==
    /\ admitted' = Logged(admitted, c, t, r)
    /\ last_call' = [client |-> c, time |-> t, result |-> r]

Ev(e, ok) == [ev |-> e, ok |-> ok]

(***************************************************************************)
(* download_video, one action per step of the handler that touches state   *)
(* shared with other threads                                               *)
(***************************************************************************)
\* jsonify(...), status
Reply(st, b) == [status |-> st, body |-> b]

RateLimitReply == Reply(429, [error |-> "Rate limit exceeded"])
InvalidJsonReply == Reply(400, [error |-> "Invalid JSON data"])
NoUrlReply == Reply(400, [error |-> "No URL provided"])
InvalidUrlReply == Reply(400, [error |-> "Invalid URL format"])
\* the inner except around the probe
ProbeFailedReply == Reply(400, [error |-> "Failed to extract video information"])
TooLongReply(d) ==
    Reply(400, [error |-> "Video exceeds maximum duration",
                max_duration_seconds |-> MAX_DURATION_SECONDS,
                video_duration_seconds |-> d.val])
\* the inner except around the fetch
FetchFailedReply == Reply(500, [error |-> "Download failed"])
\* the outer except
InternalErrorReply == Reply(500, [error |-> "Internal server error"])
\* an exception that leaves download_video: Flask answers it
UnhandledReply == Reply(500, [error |-> "Unhandled exception"])
SuccessReply(l, size) ==
    Reply(200, [title |-> l.title,
                filename |-> l.filename,
                duration |-> l.duration,
                status |-> "Downloaded successfully",
                file_size_bytes |-> size])

\* the worker returns rep: the request is over
Finish(w, rep, evs) ==
    /\ pc' = [pc EXCEPT ![w] = "done"]
    /\ response' = [response EXCEPT ![w] = rep]
    /\ events' = [events EXCEPT ![w] = @ \o evs \o <<Ev("response", TRUE)>>]

\* the worker goes on to step p
Goto(w, p, evs) ==
    /\ pc' = [pc EXCEPT ![w] = p]
    /\ events' = [events EXCEPT ![w] = @ \o evs]
    /\ UNCHANGED response

\* check_rate_limit returns: its locals are gone
Returned(l) == [l EXCEPT !.current_time = 0, !.kept = <<>>]

\* A request with one of the bodies arrives, a worker thread picks it up
\* (line 151) and enters check_rate_limit, lines 63-69: read the clock, build
\* the filtered list
Receive(w, bodies) ==
    /\ pc[w] = "idle"
    /\ started < MaxRequests
    /\ started' = started + 1
    \* idle threads are interchangeable: the lowest one takes the request
    /\ \A v \in Workers : v < w => pc[v] # "idle"
    \* clients are interchangeable: the first request is c1's
    /\ \E c \in Clients, b \in bodies :
        /\ (started = 0 => c = "c1")
        /\ loc' = [loc EXCEPT ![w] =
                   [IdleLoc EXCEPT !.client_ip = c,
                                   !.body = b,
                                   !.current_time = now,
                                   !.kept = FilterWindow(dict_get(download_requests, c),
                                                         rate_cutoff(now))]]
    /\ Goto(w, "rl_store", <<>>)
    /\ UNCHANGED <<fnVars, now, rlVars, fsVars, swVars>>

\* lines 67-70: store the filtered list
RlStore(w) ==
    /\ pc[w] = "rl_store"
    /\ download_requests' =
           dict_set(download_requests, loc[w].client_ip, loc[w].kept)
    /\ Goto(w, "rl_test", <<>>)
    /\ UNCHANGED <<fnVars, now, admitted, last_call, loc, started, fsVars, swVars>>

\* a fault: the handler ignores what check_rate_limit returned
AfterReject_Continue(w) == Goto(w, "makedirs", <<Ev("admission", FALSE)>>)

\* lines 154-159: check_rate_limit returned False
AfterReject(w) == Finish(w, RateLimitReply, <<Ev("admission", FALSE)>>)

\* lines 73-74: the limit test; False ends the request with 429
RlTest(w) ==
    /\ pc[w] = "rl_test"
    /\ IF LimitReached(dict_get(download_requests, loc[w].client_ip))
       THEN /\ LogCall(loc[w].client_ip, loc[w].current_time, FALSE)
            /\ loc' = [loc EXCEPT ![w] = Returned(@)]
            /\ AfterReject(w)
       ELSE /\ Goto(w, "rl_append", <<>>)
            /\ UNCHANGED <<admitted, last_call, loc>>
    /\ UNCHANGED <<fnVars, now, download_requests, started, fsVars, swVars>>

\* a fault: the prefix test is missing
ValidateReply_NoPrefix(b) ==
    IF ~b.json THEN InvalidJsonReply
    ELSE IF b.url.kind = "absent" \/ (b.url.kind = "str" /\ b.url.val = <<>>)
         THEN NoUrlReply
    ELSE IF b.url.kind # "str" THEN UnhandledReply
    ELSE NoResponse

\* a fault: the prefix test comes before the test for an empty url
ValidateReply_PrefixFirst(b) ==
    IF ~b.json THEN InvalidJsonReply
    ELSE IF b.url.kind = "absent" THEN NoUrlReply
    ELSE IF b.url.kind # "str" THEN UnhandledReply
    ELSE IF ~(startswith(b.url.val, Str_http) \/ startswith(b.url.val, Str_https))
         THEN InvalidUrlReply
    ELSE NoResponse

\* lines 161-172: the reply of the body and url checks, NoResponse when they pass
ValidateReply(b) ==
    IF ~b.json THEN InvalidJsonReply
    ELSE IF b.url.kind = "absent" \/ (b.url.kind = "str" /\ b.url.val = <<>>)
         THEN NoUrlReply
    ELSE IF b.url.kind # "str" THEN UnhandledReply
    ELSE IF ~(startswith(b.url.val, Str_http) \/ startswith(b.url.val, Str_https))
         THEN InvalidUrlReply
    ELSE NoResponse

\* lines 161-172 for a request whose body is b
Validate(w, b) ==
    IF ValidateReply(b) # NoResponse
    THEN Finish(w, ValidateReply(b), <<Ev("admission", TRUE), Ev("validate", FALSE)>>)
    ELSE Goto(w, "makedirs", <<Ev("admission", TRUE), Ev("validate", TRUE)>>)

\* lines 77-81: record the request, return True; then lines 161-172:
\* request.get_json() and the url checks
RlAppend(w) ==
    /\ pc[w] = "rl_append"
    /\ download_requests' =
           Appended(download_requests, loc[w].client_ip, loc[w].current_time)
    /\ LogCall(loc[w].client_ip, loc[w].current_time, TRUE)
    /\ loc' = [loc EXCEPT ![w] = Returned(@)]
    /\ Validate(w, loc[w].body)
    /\ UNCHANGED <<fnVars, now, started, fsVars, swVars>>

\* line 176: os.makedirs(DOWNLOAD_DIR, exist_ok=True); creating the directory
\* may fail, which the outer except answers
Makedirs(w) ==
    /\ pc[w] = "makedirs"
    /\ \/ /\ dir_exists' = TRUE
          /\ Goto(w, "probe", <<>>)
       \/ /\ ~dir_exists
          /\ UNCHANGED dir_exists
          /\ Finish(w, InternalErrorReply, <<Ev("makedirs", FALSE)>>)
    /\ UNCHANGED <<fnVars, now, rlVars, loc, started, files, swVars>>

\* a fault: the probe's exception reaches the outer except
AfterProbeFailure_Uncaught(w) == Finish(w, InternalErrorReply, <<Ev("probe", FALSE)>>)

\* lines 190-195: the probe raised
AfterProbeFailure(w) == Finish(w, ProbeFailedReply, <<Ev("probe", FALSE)>>)

\* lines 203-210: the duration limit, after a probe that reported d
DurationGate(w, d) ==
    IF DurationExceeded(d)
    THEN Finish(w, TooLongReply(d), <<Ev("probe", TRUE), Ev("gate", FALSE)>>)
    ELSE Goto(w, "fetch", <<Ev("probe", TRUE), Ev("gate", TRUE)>>)

\* lines 187-210: ydl.extract_info(url, download=False), then the duration limit
Probe(w, durations, titles) ==
    /\ pc[w] = "probe"
    /\ \/ /\ AfterProbeFailure(w)
          /\ UNCHANGED loc
       \/ \E d \in durations, t \in titles :
          /\ loc' = [loc EXCEPT ![w].duration = get_duration(d),
                                ![w].title = get_title(t)]
          /\ DurationGate(w, get_duration(d))
    /\ UNCHANGED <<fnVars, now, rlVars, started, fsVars, swVars>>

\* the path the collaborator writes: outtmpl with the extension it chose
target_name(title) == get_safe_filename(title) \o Str_ext

\* the directory without the path p (os.remove, or the old name of a rename)
Removed(fs, p) == [n \in DOMAIN fs \ {p} |-> fs[n]]

\* the directory after a successful fetch: a new file, or the one already there
Fetched(fs, name, t) ==
    IF name \in DOMAIN fs THEN fs
    ELSE [n \in DOMAIN fs \cup {name} |->
            IF n = name THEN [kind |-> "file", ctime |-> t, size |-> 1] ELSE fs[n]]

\* a fault: the fetch is tried again after it raised
AfterFetchFailure_Retry(w) == Goto(w, "fetch", <<Ev("fetch", FALSE)>>)

\* lines 232-237: the fetch raised
AfterFetchFailure(w) == Finish(w, FetchFailedReply, <<Ev("fetch", FALSE)>>)

\* lines 213-237: sanitize, ydl.extract_info(url, download=True), prepare_filename
Fetch(w) ==
    /\ pc[w] = "fetch"
    /\ \/ /\ AfterFetchFailure(w)
          /\ UNCHANGED <<loc, files>>
       \/ /\ loc' = [loc EXCEPT ![w].filename = target_name(loc[w].title)]
          /\ files' = Fetched(files, target_name(loc[w].title), now)
          /\ Goto(w, "exists", <<Ev("fetch", TRUE)>>)
    /\ UNCHANGED <<fnVars, now, rlVars, started, dir_exists, swVars>>

\* the name yt-dlp downloads under until the file is complete
Str_part == <<".", "p", "a", "r", "t">>
part_name(title) == target_name(title) \o Str_part

\* lines 213-228: sanitize; extract_info(url, download=True) starts: a file
\* already at the target is taken as it is, else the download is written to
\* the part file
FetchBegin(w) ==
    /\ pc[w] = "fetch"
    /\ \/ /\ AfterFetchFailure(w)
          /\ UNCHANGED <<loc, files>>
       \/ /\ target_name(loc[w].title) \in DOMAIN files
          /\ loc' = [loc EXCEPT ![w].filename = target_name(loc[w].title)]
          /\ Goto(w, "exists", <<Ev("fetch", TRUE)>>)
          /\ UNCHANGED files
       \/ /\ target_name(loc[w].title) \notin DOMAIN files
          /\ files' = Fetched(files, part_name(loc[w].title), now)
          /\ Goto(w, "fetching", <<>>)
          /\ UNCHANGED loc
    /\ UNCHANGED <<fnVars, now, rlVars, started, dir_exists, swVars>>

\* lines 228-237: the download is complete, the part file is renamed to the
\* target; extract_info raises when the part file is gone
FetchEnd(w) ==
    /\ pc[w] = "fetching"
    /\ IF part_name(loc[w].title) \in DOMAIN files
       THEN /\ files' = Fetched(Removed(files, part_name(loc[w].title)),
                                target_name(loc[w].title), now)
            /\ loc' = [loc EXCEPT ![w].filename = target_name(loc[w].title)]
            /\ Goto(w, "exists", <<Ev("fetch", TRUE)>>)
       ELSE /\ AfterFetchFailure(w)
            /\ UNCHANGED <<loc, files>>
    /\ UNCHANGED <<fnVars, now, rlVars, started, dir_exists, swVars>>

\* line 247, the condition: os.path.exists(filename)
Exists(w) ==
    /\ pc[w] = "exists"
    /\ loc' = [loc EXCEPT ![w].exists = loc[w].filename \in DOMAIN files]
    /\ Goto(w, "getsize", <<>>)
    /\ UNCHANGED <<fnVars, now, rlVars, started, fsVars, swVars>>

\* lines 240-258: os.path.getsize(filename) when it existed, else None; the
\* reply.  getsize of a file gone since raises, which the outer except answers
Respond(w) ==
    /\ pc[w] = "getsize"
    /\ IF ~loc[w].exists
       THEN Finish(w, SuccessReply(loc[w], [kind |-> "none", val |-> 0]), <<>>)
       ELSE IF loc[w].filename \in DOMAIN files
       THEN Finish(w, SuccessReply(loc[w],
                       [kind |-> "num", val |-> files[loc[w].filename].size]), <<>>)
       ELSE Finish(w, InternalErrorReply, <<Ev("getsize", FALSE)>>)
    /\ UNCHANGED <<fnVars, now, rlVars, loc, started, fsVars, swVars>>

\* the response is sent and the worker thread is free again
Return(w) ==
    /\ pc[w] = "done"
    /\ pc' = [pc EXCEPT ![w] = "idle"]
    /\ loc' = [loc EXCEPT ![w] = IdleLoc]
    /\ events' = [events EXCEPT ![w] = <<>>]
    /\ response' = [response EXCEPT ![w] = NoResponse]
    /\ UNCHANGED <<fnVars, now, rlVars, started, fsVars, swVars>>

(***************************************************************************)
(* cleanup_worker and cleanup_old_files                                    *)
(***************************************************************************)
\* glob.glob(os.path.join(DOWNLOAD_DIR, "*")): "*" matches no name that
\* begins with a dot
glob_star(fs) == { n \in DOMAIN fs : n[1] # "." }

\* os.path.isfile
isfile(fs, p) == p \in DOMAIN fs /\ fs[p].kind = "file"

\* file_time < cutoff_time
Expired(file_time, cutoff_time) == file_time < cutoff_time

file_cutoff(t) == t - timedelta_hours(MAX_FILE_AGE_HOURS)

Done(p, act) == [name |-> p, ctime |-> files[p].ctime, act |-> act]

\* lines 53-54 and 31-36: the sleep is over, a cycle starts; without the
\* directory the cycle returns at once and the worker sleeps again
SweepStart ==
    /\ spc = "sleeping"
    /\ now >= wake_at
    /\ IF ~dir_exists
       THEN /\ wake_at' = now + SLEEP_HOURS
            /\ UNCHANGED <<spc, s_cutoff, s_paths>>
       ELSE /\ spc' = "scanning"
            /\ s_cutoff' = file_cutoff(now)
            /\ s_paths' = glob_star(files)
            /\ UNCHANGED wake_at
    /\ UNCHANGED <<fnVars, now, rlVars, hVars, fsVars, file_path, s_log>>

\* lines 38-39: the loop takes the next glob result and asks os.path.isfile
SweepIsfile ==
    /\ spc = "scanning"
    /\ \E p \in s_paths :
        /\ s_paths' = s_paths \ {p}
        /\ IF isfile(files, p)
           THEN /\ spc' = "stat"
                /\ file_path' = p
           ELSE UNCHANGED <<spc, file_path>>
    /\ UNCHANGED <<fnVars, now, rlVars, hVars, fsVars, wake_at, s_cutoff, s_log>>

\* the loop goes on to the next glob result
SweepGoOn(log) ==
    /\ spc' = "scanning"
    /\ s_log' = log
    /\ UNCHANGED <<wake_at, s_cutoff, s_paths>>

\* lines 47-48 and 55: an exception left the loop; it is logged,
\* cleanup_old_files returns and the worker sleeps
SweepAbort ==
    /\ spc' = "sleeping"
    /\ wake_at' = now + SLEEP_HOURS
    /\ s_cutoff' = 0
    /\ s_paths' = {}
    /\ s_log' = {}

\* a fault: a failed os.remove is not caught inside the loop
AfterRemoveFailure_Uncaught(p) == SweepAbort

\* lines 45-46: os.remove raised; the failure is logged
AfterRemoveFailure(p) == SweepGoOn(s_log \cup {Done(p, "failed")})

\* lines 40-46: os.path.getctime of the path, the comparison, os.remove.
\* getctime of a path that is gone since isfile raises outside the inner try
SweepStat ==
    /\ spc = "stat"
    /\ file_path' = <<>>
    /\ IF file_path \notin DOMAIN files
       THEN /\ SweepAbort
            /\ UNCHANGED files
       ELSE IF Expired(files[file_path].ctime, s_cutoff)
       THEN \/ /\ files' = Removed(files, file_path)
               /\ SweepGoOn(s_log \cup {Done(file_path, "removed")})
            \/ /\ AfterRemoveFailure(file_path)
               /\ UNCHANGED files
       ELSE /\ SweepGoOn(s_log)
            /\ UNCHANGED files
    /\ UNCHANGED <<fnVars, now, rlVars, hVars, dir_exists>>

\* the loop is over: cleanup_old_files returns, line 55 sleeps
SweepEnd ==
    /\ spc = "scanning"
    /\ s_paths = {}
    /\ spc' = "sleeping"
    /\ wake_at' = now + SLEEP_HOURS
    /\ s_cutoff' = 0
    /\ s_log' = {}
    /\ UNCHANGED <<fnVars, now, rlVars, hVars, fsVars, s_paths, file_path>>

(***************************************************************************)
(* The clock                                                               *)
(***************************************************************************)
Tick ==
    /\ now < MaxTime
    /\ now' = now + 1
    /\ UNCHANGED <<fnVars, rlVars, hVars, fsVars, swVars>>

(***************************************************************************)
(* The service                                                             *)
(***************************************************************************)
\* requests served one at a time by one worker thread
Next ==
    \/ Receive(1, Bodies)
    \/ RlStore(1)
    \/ RlTest(1)
    \/ RlAppend(1)
    \/ Makedirs(1)
    \/ Probe(1, Durations, Titles)
    \/ Fetch(1)
    \/ Exists(1)
    \/ Respond(1)
    \/ Return(1)
    \/ Tick

Spec == Init /\ [][Next]_vars

\* the cleanup thread beside one worker thread
NextSweep ==
    \/ Receive(1, FewBodies)
    \/ RlStore(1)
    \/ RlTest(1)
    \/ RlAppend(1)
    \/ Makedirs(1)
    \/ Probe(1, FewDurations, TwoTitles)
    \/ Fetch(1)
    \/ Exists(1)
    \/ Respond(1)
    \/ Return(1)
    \/ SweepStart
    \/ SweepIsfile
    \/ SweepStat
    \/ SweepEnd
    \/ Tick

SpecSweep == Init /\ [][NextSweep]_vars

\* line 55 after the clock's last value: the hours that follow are not
\* counted, the sleep ends in one of them
SweepWakeLate ==
    /\ spc = "sleeping"
    /\ now = MaxTime
    /\ wake_at > now
    /\ wake_at' = now
    /\ UNCHANGED <<fnVars, now, rlVars, hVars, fsVars, spc, s_cutoff, s_paths, file_path, s_log>>

NextSweepOn ==
    \/ NextSweep
    \/ SweepWakeLate

\* the same threads, scheduled fairly: the cleanup thread is never held up
\* for ever (line 58 starts it, lines 53-55 loop without an exit) and time
\* passes
SweeperFairness ==
    /\ WF_vars(SweepStart)
    /\ WF_vars(SweepIsfile)
    /\ WF_vars(SweepStat)
    /\ WF_vars(SweepEnd)
    /\ WF_vars(SweepWakeLate)
    /\ WF_vars(Tick)

SpecSweepFair == Init /\ [][NextSweepOn]_vars /\ SweeperFairness

\* how many requests arrive while downloads take time
MaxRequestsRace == 2

\* the cleanup thread beside one worker thread whose download takes time
NextRace ==
    \/ (started < MaxRequestsRace /\ Receive(1, GoodBodies))
    \/ RlStore(1)
    \/ RlTest(1)
    \/ RlAppend(1)
    \/ Makedirs(1)
    \/ Probe(1, FewDurations, FewTitles)
    \/ FetchBegin(1)
    \/ FetchEnd(1)
    \/ Exists(1)
    \/ Respond(1)
    \/ Return(1)
    \/ SweepStart
    \/ SweepIsfile
    \/ SweepStat
    \/ SweepEnd
    \/ Tick

SpecRace == Init /\ [][NextRace]_vars

\* requests served by all the worker threads at the same time
NextConc ==
    \/ \E w \in Workers : Receive(w, FewBodies)
    \/ \E w \in Workers : RlStore(w)
    \/ \E w \in Workers : RlTest(w)
    \/ \E w \in Workers : RlAppend(w)
    \/ \E w \in Workers : Makedirs(w)
    \/ \E w \in Workers : Probe(w, FewDurations, FewTitles)
    \/ \E w \in Workers : Fetch(w)
    \/ \E w \in Workers : Exists(w)
    \/ \E w \in Workers : Respond(w)
    \/ \E w \in Workers : Return(w)
    \/ Tick

SpecConc == Init /\ [][NextConc]_vars

(***************************************************************************)
(* check_rate_limit called one call at a time                              *)
(***************************************************************************)
\* the clock of the sequential specification stops here
MaxTimeSeq == 5

\* a refused call is recorded like an admitted one
AfterCall_RecordsRefusal(d, c, t) ==
    Appended(dict_set(d, c, FilterWindow(dict_get(d, c), rate_cutoff(t))), c, t)

\* the dict after a whole call for client c at time t
AfterCall(d, c, t) ==
    LET d1 == dict_set(d, c, FilterWindow(dict_get(d, c), rate_cutoff(t)))
    IN  IF LimitReached(dict_get(d1, c)) THEN d1 ELSE Appended(d1, c, t)

\* one cap over the timestamps of all clients together
CallResult_GlobalCap(d, c, t) ==
    \A o \in DOMAIN d : ~LimitReached(FilterWindow(dict_get(d, o), rate_cutoff(t)))

\* what the call returns
CallResult(d, c, t) ==
    ~LimitReached(FilterWindow(dict_get(d, c), rate_cutoff(t)))

CheckRateLimit(c) ==
    /\ download_requests' = AfterCall(download_requests, c, now)
    /\ LogCall(c, now, CallResult(download_requests, c, now))
    /\ UNCHANGED <<fnVars, now, hVars, fsVars, swVars>>

TickSeq ==
    /\ now < MaxTimeSeq
    /\ now' = now + 1
    /\ UNCHANGED <<fnVars, rlVars, hVars, fsVars, swVars>>

NextSeq ==
    \/ \E c \in Clients : CheckRateLimit(c)
    \/ TickSeq

SpecSeq == Init /\ [][NextSeq]_vars

(***************************************************************************)
(* get_safe_filename on its own: a title is drawn, the function is applied *)
(* to it and then to its own result                                        *)
(***************************************************************************)
MaxTail == 3

\* characters a title is made of: a letter, a space, a period, and two
\* characters outside safe_chars
TitleChars == { "a", " ", ".", ":", "/" }

Repeat(c, n) == [i \in 1..n |-> c]

\* how many letters precede the drawn tail: none, or enough to bring the
\* title to the length limit and just beyond it
PadLens == {0} \cup ((MAX_NAME_LEN - MaxTail) .. MAX_NAME_LEN)

Tails == UNION { [1..k -> TitleChars] : k \in 0..MaxTail }

TitleInputs == { Repeat("a", n) \o t : n \in PadLens, t \in Tails }

InitName ==
    /\ InitService
    /\ title_in \in TitleInputs
    /\ names = <<>>

\* name = get_safe_filename(title), then get_safe_filename(name)
Sanitize ==
    /\ Len(names) < 2
    /\ names' = Append(names,
                       get_safe_filename(IF names = <<>> THEN title_in
                                         ELSE names[Len(names)]))
    /\ UNCHANGED <<title_in, now, rlVars, hVars, fsVars, swVars>>

NextName == Sanitize

SpecName == InitName /\ [][NextName]_vars

(***************************************************************************)
(* Properties                                                              *)
(***************************************************************************)
Window == timedelta_minutes(RATE_LIMIT_WINDOW_MINUTES)

\* how many calls for c returned True with a timestamp in (lo, hi]
RECURSIVE AdmittedIn(_, _, _, _)
AdmittedIn(adm, c, lo, hi) ==
    IF hi <= lo THEN 0
    ELSE admitted_at(adm, c, hi) + AdmittedIn(adm, c, lo, hi - 1)

\* the smallest element of a non-empty list of times
Oldest(l) == CHOOSE t \in {l[i] : i \in 1..Len(l)} : \A i \in 1..Len(l) : t <= l[i]

\* the positions of the events named e in a trace
At(tr, e) == { i \in 1..Len(tr) : tr[i].ev = e }
Has(tr, e, ok) == \E i \in At(tr, e) : tr[i].ok = ok

\* C1: with the calls of check_rate_limit made one at a time on a clock that
\* never goes back, no client has more than MAX_REQUESTS_PER_IP calls that
\* returned True with timestamps in any window (t - window, t]; hence a call
\* made while that many admitted timestamps are newer than now - window
\* returns False.
C1_WindowBound ==
    \A c \in Clients : \A t \in 0..now :
        AdmittedIn(admitted, c, t - Window, t) <= MAX_REQUESTS_PER_IP

\* C1: a call was refused while the window held its full count
C1_Witness ==
    /\ last_call.client \in Clients
    /\ ~last_call.result
    /\ last_call.time = now
    /\ AdmittedIn(admitted, last_call.client, now - Window, now) = MAX_REQUESTS_PER_IP

\* C2: the same bound as C1, with the steps of concurrent calls interleaved.
C2_ConcurrentWindowBound ==
    \A t \in 0..now : \A c \in Clients :
        AdmittedIn(admitted, c, t - Window, t) < MAX_REQUESTS_PER_IP + 1

\* the url of the body is empty, absent, or a string without an accepted prefix
BadUrl(b) ==
    /\ b.json
    /\ \/ b.url.kind = "absent"
       \/ /\ b.url.kind = "str"
          /\ ~startswith(b.url.val, Str_http)
          /\ ~startswith(b.url.val, Str_https)

ClientError(rep) == rep.status = 400

\* C3 as claimed: a request with a bad url is refused as a client input error
\* without the rate limiter having been consulted for it.
C3_ValidationFirst ==
    \A w \in Workers :
        (pc[w] = "done" /\ BadUrl(loc[w].body))
            => (ClientError(response[w]) /\ At(events[w], "admission") = {})

\* C3 amended: the rate limiter is consulted first.  The step that refuses a
\* request for its bad url is the step in which check_rate_limit admitted it:
\* it answers 400, it has appended the call's timestamp to the client's list,
\* and no collaborator call is made for the request.
C3_LimiterFirst ==
    [][\A w \in Workers :
        (pc[w] # "done" /\ pc'[w] = "done" /\ BadUrl(loc[w].body)
            /\ response'[w] # RateLimitReply)
        => /\ pc[w] = "rl_append"
           /\ ClientError(response'[w])
           /\ download_requests'[loc[w].client_ip] =
                  Append(dict_get(download_requests, loc[w].client_ip),
                         loc[w].current_time)
           /\ events'[w] = <<Ev("admission", TRUE), Ev("validate", FALSE),
                             Ev("response", TRUE)>>]_vars

\* C3: a request with a bad url has been answered 400 and counts for its client
C3_Witness ==
    \E w \in Workers :
        /\ pc[w] = "done"
        /\ BadUrl(loc[w].body)
        /\ ClientError(response[w])
        /\ Len(dict_get(download_requests, loc[w].client_ip)) > 0

EmptyUrl(b) == b.json /\ b.url.kind = "str" /\ b.url.val = <<>>
FtpUrl(b) == b.json /\ b.url.kind = "str" /\ b.url.val = Str_ftp_x

\* C4 as claimed: whatever came before, an empty url is answered 400 "No URL
\* provided" and the url ftp://x 400 "Invalid URL format".
C4_AlwaysRejectedAs400 ==
    \A w \in Workers :
        pc[w] = "done" =>
            /\ EmptyUrl(loc[w].body) => response[w] = NoUrlReply
            /\ FtpUrl(loc[w].body) => response[w] = InvalidUrlReply

\* C4 amended: a request that the rate limiter admits is answered so; one
\* that it refuses is answered 429 whatever its url.
C4_RejectedAs400WhenAdmitted ==
    \A w \in Workers :
        pc[w] = "done" =>
            /\ (EmptyUrl(loc[w].body) /\ Has(events[w], "admission", TRUE))
                   => response[w] = NoUrlReply
            /\ (FtpUrl(loc[w].body) /\ Has(events[w], "admission", TRUE))
                   => response[w] = InvalidUrlReply
            /\ Has(events[w], "admission", FALSE) => response[w] = RateLimitReply

\* C4: an admitted request with the url ftp://x has been answered
C4_Witness ==
    \E w \in Workers :
        /\ pc[w] = "done"
        /\ FtpUrl(loc[w].body)
        /\ response[w] = InvalidUrlReply

\* the probed duration is missing (or None), zero, or at most the limit
DurationAllowed(d) ==
    d.kind # "num" \/ d.val = 0 \/ d.val <= MAX_DURATION_SECONDS

\* C5: for a request whose probe succeeded, the fetch is invoked if and only
\* if the probed duration is missing, zero or at most MAX_DURATION_SECONDS;
\* a longer one ends the request with 400, the limit and the duration, and
\* no fetch.
C5_DurationGate ==
    \A w \in Workers :
        Has(events[w], "probe", TRUE) =>
            /\ At(events[w], "fetch") # {} => DurationAllowed(loc[w].duration)
            /\ pc[w] = "done" =>
                  (At(events[w], "fetch") # {} <=> DurationAllowed(loc[w].duration))
            /\ (pc[w] = "done" /\ ~DurationAllowed(loc[w].duration)) =>
                  /\ response[w].status = 400
                  /\ response[w].body.max_duration_seconds = MAX_DURATION_SECONDS
                  /\ response[w].body.video_duration_seconds = loc[w].duration.val

\* C5: the fetch was invoked for a video exactly as long as the limit
C5_Witness ==
    \E w \in Workers :
        /\ pc[w] = "done"
        /\ Has(events[w], "probe", TRUE)
        /\ loc[w].duration = [kind |-> "num", val |-> MAX_DURATION_SECONDS]
        /\ At(events[w], "fetch") # {}

\* every event e1 of the trace comes before every event e2
Before(tr, e1, e2) == \A i \in At(tr, e1), j \in At(tr, e2) : i < j

\* C6: in the trace of a request the admission check comes before the probe,
\* the probe before the duration gate and the gate before the fetch, none
\* happening without the one before it; a request whose admission check
\* returned False has no probe and no fetch.
C6_GateOrder ==
    \A w \in Workers :
        LET tr == events[w] IN
        /\ Before(tr, "admission", "probe")
        /\ Before(tr, "probe", "gate")
        /\ Before(tr, "gate", "fetch")
        /\ At(tr, "probe") # {} => Has(tr, "admission", TRUE)
        /\ At(tr, "gate") # {} => Has(tr, "probe", TRUE)
        /\ At(tr, "fetch") # {} => Has(tr, "gate", TRUE)
        /\ Has(tr, "admission", FALSE) => At(tr, "probe") \cup At(tr, "fetch") = {}

\* C6: a request went through every gate
C6_Witness ==
    \E w \in Workers :
        /\ pc[w] = "done"
        /\ Has(events[w], "admission", TRUE)
        /\ Has(events[w], "probe", TRUE)
        /\ Has(events[w], "gate", TRUE)
        /\ Has(events[w], "fetch", TRUE)

\* C7: a request ends with exactly one response, of status 200, 400, 429 or
\* 500; a probe that failed is answered 400 and a fetch that failed 500, both
\* by the handler's own replies.
C7_OneClassifiedResponse ==
    \A w \in Workers :
        /\ pc[w] = "done" <=> Cardinality(At(events[w], "response")) = 1
        /\ pc[w] # "done" => (At(events[w], "response") = {} /\ response[w] = NoResponse)
        /\ pc[w] = "done" =>
            /\ response[w].status \in {200, 400, 429, 500}
            /\ events[w][Len(events[w])].ev = "response"
            /\ Has(events[w], "probe", FALSE) => response[w].status = 400
            /\ Has(events[w], "fetch", FALSE) => response[w].status = 500
            /\ (At(events[w], "probe") \cup At(events[w], "fetch") # {})
                   => response[w] # UnhandledReply

\* C7: a failed fetch has been answered 500
C7_Witness ==
    \E w \in Workers :
        /\ pc[w] = "done"
        /\ Has(events[w], "fetch", FALSE)
        /\ response[w].status = 500

\* C8: a request has at most one probe and at most one fetch, and a gate that
\* failed is the last thing before the response: nothing is tried again.
C8_NoRetry ==
    \A w \in Workers :
        LET tr == events[w] IN
        /\ Cardinality(At(tr, "probe")) <= 1
        /\ Cardinality(At(tr, "fetch")) <= 1
        /\ \A i \in 1..Len(tr) :
              ~tr[i].ok => /\ pc[w] = "done"
                           /\ i + 1 = Len(tr)
                           /\ tr[i + 1].ev = "response"

\* C8: a probe failed and the request ended there
C8_Witness ==
    \E w \in Workers :
        /\ pc[w] = "done"
        /\ Has(events[w], "probe", FALSE)
        /\ At(events[w], "fetch") = {}

\* C9: when a cycle has visited all it enumerated, no regular file of the
\* directory older than the cycle's cutoff is left, but for those whose
\* removal failed; and the cycle removed regular files older than the cutoff
\* only.
C9_SweepsExactlyTheOld ==
    (spc = "scanning" /\ s_paths = {}) =>
        /\ \A n \in DOMAIN files :
              (files[n].kind = "file" /\ files[n].ctime < s_cutoff)
                  => \E d \in s_log : d.name = n /\ d.act = "failed"
        /\ \A d \in s_log : d.ctime < s_cutoff

\* C10: a call leaves no timestamp at or before now - window in the client's
\* list, and a call for a client whose list holds MAX_REQUESTS_PER_IP
\* timestamps, the oldest at or before now - window, returns True.
C10_SlotFreed ==
    [][\A c \in Clients :
        (now' = now /\ last_call'.client = c)
        => /\ \A i \in 1..Len(download_requests'[c]) :
                 download_requests'[c][i] > now - Window
           /\ (/\ Len(dict_get(download_requests, c)) = MAX_REQUESTS_PER_IP
               /\ Oldest(dict_get(download_requests, c)) <= now - Window)
              => (last_call'.result /\ last_call'.time = now)]_vars

\* C10: a client that filled its window is admitted when its oldest timestamp
\* is exactly a window old
C10_Witness ==
    /\ last_call.client \in Clients
    /\ last_call.result
    /\ last_call.time = now
    /\ now >= Window
    /\ admitted_at(admitted, last_call.client, now - Window) > 0
    /\ AdmittedIn(admitted, last_call.client, now - Window - Window, now - Window)
           = MAX_REQUESTS_PER_IP

AllowedChars ==
    { "a", "b", "c", "d", "e", "f", "g", "h", "i", "j", "k", "l", "m",
      "n", "o", "p", "q", "r", "s", "t", "u", "v", "w", "x", "y", "z",
      "A", "B", "C", "D", "E", "F", "G", "H", "I", "J", "K", "L", "M",
      "N", "O", "P", "Q", "R", "S", "T", "U", "V", "W", "X", "Y", "Z",
      "0", "1", "2", "3", "4", "5", "6", "7", "8", "9",
      "-", "_", ".", " " }

\* C11: sanitising a sanitised name changes nothing:
\* get_safe_filename(get_safe_filename(s)) = get_safe_filename(s) for every
\* title s, also when the collapsed title is longer than the limit and is cut
C11_Idempotent ==
    Len(names) = 2 => names[2] = names[1]

\* C12: for every title, the empty one and one made of disallowed characters
\* only included, get_safe_filename returns a string of at most MAX_NAME_LEN
\* characters, each of them a letter, digit, hyphen, underscore, period or
\* space
C12_ShortAndSafe ==
    \A k \in 1..Len(names) :
        /\ Len(names[k]) <= 100
        /\ \A i \in 1..Len(names[k]) : names[k][i] \in AllowedChars

\* a title longer than the limit made it through: its last characters are
\* disallowed ones, and the result is cut to the limit
C12_Witness ==
    /\ Len(names) >= 1
    /\ Len(title_in) > 100
    /\ title_in[Len(title_in)] \notin AllowedChars
    /\ Len(names[1]) = 100

\* C13: a call of check_rate_limit that returns False records nothing: the
\* client's stored list afterwards is its list before the call without the
\* timestamps at or before now - window, and nothing else changes.
C13_RefusalRecordsNothing ==
    [][(now' = now /\ last_call'.client \in Clients /\ ~last_call'.result)
        => LET c == last_call'.client
               Recent(t) == ~(t <= now - Window)
           IN  /\ dict_get(download_requests', c)
                    = SelectSeq(dict_get(download_requests, c), Recent)
               /\ admitted' = admitted
               /\ \A o \in Clients \ {c} :
                    dict_get(download_requests', o) = dict_get(download_requests, o)]_vars

\* C13: a call was refused and the client's list holds timestamps of
\* earlier moments only
C13_Witness ==
    /\ last_call.client \in Clients
    /\ ~last_call.result
    /\ last_call.time = now
    /\ now > 0
    /\ Len(dict_get(download_requests, last_call.client)) = MAX_REQUESTS_PER_IP
    /\ \A i \in 1..MAX_REQUESTS_PER_IP :
          download_requests[last_call.client][i] < now

\* how many timestamps of the list are newer than t - window
RecentCount(l, t) == Cardinality({ i \in 1..Len(l) : l[i] > t - Window })

\* C16: the limit is per client and there is no cap across clients: a call
\* for one client leaves every other client's stored list as it was, and its
\* result is decided by the caller's own timestamps and the time alone.
C16_PerClient ==
    [][(now' = now /\ last_call'.client \in Clients)
        => LET c == last_call'.client
           IN  /\ \A o \in Clients \ {c} :
                    /\ (o \in DOMAIN download_requests') = (o \in DOMAIN download_requests)
                    /\ dict_get(download_requests', o) = dict_get(download_requests, o)
               /\ last_call'.result
                    = (RecentCount(dict_get(download_requests, c), now)
                          < MAX_REQUESTS_PER_IP)]_vars

\* C16: a client is admitted while another client's window is full
C16_Witness ==
    /\ last_call.client \in Clients
    /\ last_call.result
    /\ last_call.time = now
    /\ \E o \in Clients \ {last_call.client} :
          RecentCount(dict_get(download_requests, o), now) = MAX_REQUESTS_PER_IP

\* how often the time t stands in the list l
Occurrences(l, t) == Cardinality({ i \in 1..Len(l) : l[i] = t })

\* C17: no admission is lost when calls interleave: the timestamp appended
\* by a call that returned True stays in the client's stored list as long as
\* it is newer than now - window, also when another call for the same client
\* filtered the list before the append and stores its result after it.
C17_NoAdmissionLost ==
    \A c \in Clients : \A t \in 0..now :
        t > now - Window
            => Occurrences(dict_get(download_requests, c), t)
                   >= admitted_at(admitted, c, t)

\* C18: a request whose fetch succeeded ends with status 200 under every
\* interleaving with a sweeper cycle, also when the sweeper deletes the
\* resolved file between the existence check and the size read.
C18_FetchedMeans200 ==
    \A w \in Workers :
        (pc[w] = "done" /\ Has(events[w], "fetch", TRUE))
            => response[w].status = 200

\* C14: within one cycle a failed deletion of an expired file does not end
\* the cycle: the loop takes every path it enumerated, and each expired
\* regular file it looks at is deleted or its failure is logged, after which
\* the loop goes on with all the paths still to be visited.
C14_FailedRemovalGoesOn ==
    [][/\ (spc = "scanning" /\ s_paths' # s_paths)
            => \E p \in s_paths :
                  /\ s_paths' = s_paths \ {p}
                  /\ isfile(files, p) => (spc' = "stat" /\ file_path' = p)
       /\ (/\ spc = "stat" /\ spc' # "stat"
           /\ file_path \in DOMAIN files
           /\ files[file_path].ctime < s_cutoff)
            => /\ spc' = "scanning"
               /\ s_paths' = s_paths
               /\ s_log \subseteq s_log'
               /\ \/ file_path \notin DOMAIN files'
                  \/ /\ files' = files
                     /\ \E d \in s_log' : d.name = file_path /\ d.act = "failed"]_vars

\* C14: a deletion has failed in this cycle and the loop is looking at
\* another expired file
C14_Witness ==
    /\ spc = "stat"
    /\ file_path \in DOMAIN files
    /\ files[file_path].ctime < s_cutoff
    /\ \E d \in s_log : d.act = "failed" /\ d.name # file_path

\* C19: a cycle tolerates a path that vanishes while it runs: when a file it
\* enumerated is gone (removed or renamed by a download) by the time the
\* sweeper reads its creation time, the loop goes on to the expired files
\* among the paths still to be visited.
C19_VanishedPathTolerated ==
    [][(spc = "stat" /\ spc' # "stat" /\ file_path \notin DOMAIN files)
        => \A q \in s_paths :
              (isfile(files, q) /\ files[q].ctime < s_cutoff)
                  => (spc' = "scanning" /\ q \in s_paths')]_vars

\* the names a file of the storage directory can have
StoredNames ==
    { Str_old } \cup { target_name(get_title(t)) : t \in TwoTitles }

\* the regular file n is older than MAX_FILE_AGE_HOURS
DueForSweep(n) ==
    /\ isfile(files, n)
    /\ files[n].ctime < now - MAX_FILE_AGE_HOURS

\* C15: the cleanup thread never exits and keeps cycling, so with the threads
\* scheduled fairly every regular file that stays in the storage directory
\* beyond MAX_FILE_AGE_HOURS is eventually deleted, unless its deletion fails.
C15_EventuallySwept ==
    \A n \in StoredNames :
        DueForSweep(n)
            ~> (\/ n \notin DOMAIN files
                \/ \E d \in s_log : d.name = n /\ d.act = "failed")

====
